---- MODULE Spec2Model ----
(***************************************************************************)
(* The Superstore dashboard script (src/app.py) as a state machine.  One   *)
(* run of the script is a sequence of steps (load, sidebar widgets,        *)
(* filter, KPIs, aggregations, Month column, export); a change of a        *)
(* sidebar selection reruns the script from the top with a fresh           *)
(* namespace, the widget state and the st.cache_data cache being kept.     *)
(*                                                                         *)
(* A DataFrame is [columns, dtypes, rows]; a row is [index, data] where    *)
(* index is its DataFrame index label and data maps column names to cells. *)
(* A cell is Null (NaN / NaT / None) or Val(v).  Amounts are integers.     *)
(***************************************************************************)
EXTENDS Integers, Sequences, FiniteSets, TLC

VARIABLES source, cache, session, pc, df, selected, df_filtered, kpi,
          top_customers, segment_sales, monthly, csv

vars == <<source, cache, session, pc, df, selected, df_filtered, kpi,
          top_customers, segment_sales, monthly, csv>>

----------------------------------------------------------------------------
(* Cells and small helpers *)

Null == <<>>

Val(v) == <<v>>

notna(c) == c # Null

Range(s) == {s[i] : i \in 1..Len(s)}

Min(a, b) == IF a <= b THEN a ELSE b

IndexOf(s, x) == CHOOSE i \in 1..Len(s) : s[i] = x

RECURSIVE SumSeq(_)
SumSeq(s) == IF s = <<>> THEN 0 ELSE Head(s) + SumSeq(Tail(s))

----------------------------------------------------------------------------
(* The bounded input space: the text of superstore.csv *)

MaxRows == 2

MaxCustRows == 6

StrayColumn == "\\xe8\\xae\\xb0\\xe5\\xbd\\x93\\xe6\\x95\\xb0"

\* header line of the file: names that the cleaning of column names turns into
\* the column names the script reads, and the stray column it drops
RawHeader ==
  <<StrayColumn, "Order.ID", "Order.Date", "Ship.Date", "Sales", "Profit",
    "Region", "Segment", "Category", "Sub.Category", "Customer.Name">>

BaseLine ==
  <<"1", "O1", "2020-01-15", "2020-01-20", "2", "1",
    "East", "Consumer", "Furniture", "Chairs", "Ann">>

\* one field of BaseLine replaced: <<position in the line, text>>
Variations ==
  { <<2, "">>, <<2, "O2">>,
    <<3, "soon">>, <<3, "2020-02-03">>,
    <<4, "soon">>,
    <<5, "abc">>,
    <<6, "abc">>,
    <<7, "">>, <<7, "West">>,
    <<8, "">>,
    <<9, "NA">>, <<9, "Technology">>,
    <<10, "">>, <<10, "Phones">>,
    <<11, "">> }

Lines == {BaseLine} \cup {[BaseLine EXCEPT ![v[1]] = v[2]] : v \in Variations}

CustomerPool == <<"Ann", "Bob", "Cid", "Dee", "Eve", "Fay", "Gus", "Hal">>

\* line i of a customer file: the customers appear in descending name order, so
\* that the order of first occurrence and the name order differ
CustomerOfLine(i) == CustomerPool[MaxCustRows + 1 - i]

CustomerLine(i, sales) == [BaseLine EXCEPT ![5] = sales, ![11] = CustomerOfLine(i)]

MixedFiles == UNION {[1..n -> Lines] : n \in 0..MaxRows}

CustomerFiles ==
  UNION {{[i \in 1..n |-> CustomerLine(i, ch[i])] : ch \in [1..n -> {"2", "-1"}]} :
           n \in 0..MaxCustRows}

Sources == {[header |-> RawHeader, lines |-> f] : f \in MixedFiles \cup CustomerFiles}

----------------------------------------------------------------------------
(* pandas, as far as the script uses it *)

NoTable == [columns |-> <<>>, dtypes |-> <<>>, rows |-> <<>>]

\* strings pd.read_csv reads as NaN (its default na_values)
NaStrings == {"", "#N/A", "N/A", "NA", "NULL", "NaN", "None", "n/a", "nan", "null", "<NA>"}

IntTexts == <<"-2", "-1", "0", "1", "2", "3">>

FloatTexts == <<"-2.0", "-1.0", "0.0", "1.0", "2.0", "3.0">>

IsIntText(s) == \E i \in 1..Len(IntTexts) : IntTexts[i] = s

IntOfText(s) == IndexOf(IntTexts, s) - IndexOf(IntTexts, "0")

TextOfInt(n, texts) == texts[n + IndexOf(IntTexts, "0")]

DateTexts == <<"2020-01-15", "2020-01-20", "2020-01-28", "2020-02-03">>

DateValues ==
  << [year |-> 2020, month |-> 1, day |-> 15], [year |-> 2020, month |-> 1, day |-> 20],
     [year |-> 2020, month |-> 1, day |-> 28], [year |-> 2020, month |-> 2, day |-> 3] >>

IsDateText(s) == \E i \in 1..Len(DateTexts) : DateTexts[i] = s

PeriodTexts == <<"2020-01", "2020-02">>

PeriodValues == << [year |-> 2020, month |-> 1], [year |-> 2020, month |-> 2] >>

\* ascending string order of the group keys that occur
Collation ==
  <<"2020-01", "2020-02", "Ann", "Bob", "Cid", "Consumer", "Corporate", "Dee",
    "Eve",
    "Fay", "Gus", "Hal", "NaT">>

Rank(s) == IndexOf(Collation, s)

\* pd.read_csv(..., encoding='ISO-8859-1'): the header names the columns, the
\* lines become rows indexed from 0, an NA string becomes NaN
read_csv(src) ==
  [columns |-> src.header,
   dtypes  |-> [i \in 1..Len(src.header) |-> "object"],
   rows    |-> [i \in 1..Len(src.lines) |->
                 [index |-> i - 1,
                  data  |-> [c \in Range(src.header) |->
                              LET text == src.lines[i][IndexOf(src.header, c)]
                              IN  IF text \in NaStrings THEN Null ELSE Val(text)]]]]

\* .str.strip().str.replace(' ', '_').str.replace('.', '', regex=False)
clean_column_name(h) ==
  CASE h = "Order.ID"      -> "OrderID"
    [] h = "Order.Date"    -> "OrderDate"
    [] h = "Ship.Date"     -> "ShipDate"
    [] h = "Sub.Category"  -> "SubCategory"
    [] h = "Customer.Name" -> "CustomerName"
    [] OTHER               -> h

rename_columns(t) ==
  [columns |-> [i \in 1..Len(t.columns) |-> clean_column_name(t.columns[i])],
   dtypes  |-> t.dtypes,
   rows    |-> [i \in 1..Len(t.rows) |->
                 [index |-> t.rows[i].index,
                  data  |-> [c \in {clean_column_name(h) : h \in Range(t.columns)} |->
                              t.rows[i].data[CHOOSE h \in Range(t.columns) :
                                               clean_column_name(h) = c]]]]]

\* df.drop(columns=[...], errors='ignore')
drop_columns(t, names) ==
  LET keep == SelectSeq([i \in 1..Len(t.columns) |-> i], LAMBDA i : t.columns[i] \notin names)
  IN  [columns |-> [k \in 1..Len(keep) |-> t.columns[keep[k]]],
       dtypes  |-> [k \in 1..Len(keep) |-> t.dtypes[keep[k]]],
       rows    |-> [i \in 1..Len(t.rows) |->
                     [index |-> t.rows[i].index,
                      data  |-> [c \in Range(t.columns) \ names |-> t.rows[i].data[c]]]]]

\* df[col]: the cells of a column, row by row
column(t, col) == [i \in 1..Len(t.rows) |-> t.rows[i].data[col]]

\* df[col] = values: an existing column is replaced in place, a new one is appended
assign_column(t, col, dtype, values) ==
  LET old == col \in Range(t.columns)
  IN  [columns |-> IF old THEN t.columns ELSE Append(t.columns, col),
       dtypes  |-> IF old THEN [t.dtypes EXCEPT ![IndexOf(t.columns, col)] = dtype]
                   ELSE Append(t.dtypes, dtype),
       rows    |-> [i \in 1..Len(t.rows) |->
                     [index |-> t.rows[i].index,
                      data  |-> [c \in Range(t.columns) \cup {col} |->
                                  IF c = col THEN values[i] ELSE t.rows[i].data[c]]]]]

\* pd.to_datetime(x, errors='coerce') on one cell
to_datetime(c) ==
  IF notna(c) /\ IsDateText(c[1]) THEN Val(DateValues[IndexOf(DateTexts, c[1])]) ELSE Null


\* variant: a value that does not parse is filled with 0 instead of NaN
to_numeric_fill_zero(c) ==
  IF notna(c) /\ IsIntText(c[1]) THEN Val(IntOfText(c[1])) ELSE Val(0)

\* pd.to_numeric(x, errors='coerce') on one cell
to_numeric(c) ==
  IF notna(c) /\ IsIntText(c[1]) THEN Val(IntOfText(c[1])) ELSE Null

\* the dtype pd.to_numeric gives the column: int64 unless some value became NaN
numeric_dtype(t, col) ==
  IF \A i \in 1..Len(t.rows) : notna(to_numeric(t.rows[i].data[col]))
  THEN "int64" ELSE "float64"

\* df.dropna(subset=[...])
dropna(t, subset) ==
  [t EXCEPT !.rows = SelectSeq(t.rows, LAMBDA r : \A c \in subset : notna(r.data[c]))]


\* variant: Sales and Profit forgotten in the subset
CriticalColumnsWithoutAmounts ==
  {"Region", "Segment", "Category", "SubCategory", "CustomerName"}

CriticalColumns ==
  {"Sales", "Profit", "Region", "Segment", "Category", "SubCategory", "CustomerName"}

load_data(src) ==
  LET t0 == read_csv(src)
      t1 == rename_columns(t0)
      t2 == drop_columns(t1, {StrayColumn})
      t3 == assign_column(t2, "OrderDate", "datetime64[ns]",
                          [i \in 1..Len(t2.rows) |-> to_datetime(column(t2, "OrderDate")[i])])
      t4 == assign_column(t3, "ShipDate", "datetime64[ns]",
                          [i \in 1..Len(t3.rows) |-> to_datetime(column(t3, "ShipDate")[i])])
      t5 == assign_column(t4, "Sales", numeric_dtype(t4, "Sales"),
                          [i \in 1..Len(t4.rows) |-> to_numeric(column(t4, "Sales")[i])])
      t6 == assign_column(t5, "Profit", numeric_dtype(t5, "Profit"),
                          [i \in 1..Len(t5.rows) |-> to_numeric(column(t5, "Profit")[i])])
  IN  dropna(t6, CriticalColumns)

\* Series.unique() of a column, as the set of its values
unique(t, col) == {t.rows[i].data[col][1] : i \in 1..Len(t.rows)}


\* variant: an empty list of values is taken to mean "no restriction"
isin_or_unrestricted(c, values) == values = {} \/ (c # <<>> /\ c[1] \in values)

\* Series.isin(values) on one cell
isin(c, values) == notna(c) /\ c[1] \in values

\* Series.sum(): NaN is skipped, the empty sum is 0
sum(t, col) ==
  SumSeq([i \in 1..Len(t.rows) |->
            IF notna(t.rows[i].data[col]) THEN t.rows[i].data[col][1] ELSE 0])


\* variant: nunique(dropna=False), NaN counted as one more value
nunique_counting_nan(t, col) == Cardinality({t.rows[i].data[col] : i \in 1..Len(t.rows)})

\* Series.nunique(): the number of distinct values, NaN not counted
nunique(t, col) == Cardinality({t.rows[i].data[col] : i \in 1..Len(t.rows)} \ {Null})

RECURSIVE Ascending(_)
Ascending(S) ==
  IF S = {} THEN <<>>
  ELSE LET k == CHOOSE x \in S : \A y \in S : Rank(x) <= Rank(y)
       IN  <<k>> \o Ascending(S \ {k})

\* the group keys of groupby(col): the distinct non-NaN values, in sorted order
group_keys(t, col) ==
  Ascending({t.rows[i].data[col][1] : i \in {j \in 1..Len(t.rows) : notna(t.rows[j].data[col])}})

group_rows(t, col, k) == [t EXCEPT !.rows = SelectSeq(t.rows, LAMBDA r : r.data[col] = Val(k))]

\* df.groupby(key)[col].sum(): one entry per key, in key order
groupby_sum(t, key, col) ==
  LET keys == group_keys(t, key)
  IN  [i \in 1..Len(keys) |-> [key |-> keys[i], value |-> sum(group_rows(t, key, keys[i]), col)]]

\* Series.sort_values(ascending=False): the default kind is quicksort, which is
\* not stable, so every descending arrangement of the entries is a possible result
RECURSIVE Descending(_, _)
Descending(s, I) ==
  IF I = {} THEN {<<>>}
  ELSE UNION {{<<s[i]>> \o t : t \in Descending(s, I \ {i})} :
                i \in {m \in I : \A j \in I : s[j].value <= s[m].value}}

sort_values_descending(s) == Descending(s, 1..Len(s))


\* variant: one entry too few
head_one_short(s, n) == SubSeq(s, 1, IF n - 1 <= Len(s) THEN n - 1 ELSE Len(s))

head(s, n) == SubSeq(s, 1, Min(n, Len(s)))

TopN == 5

\* Series.dt.to_period('M') on one cell
to_period_M(c) == IF notna(c) THEN Val([year |-> c[1].year, month |-> c[1].month]) ELSE Null

\* Series.astype(str) on a period cell: a missing period becomes the string 'NaT'
astype_str(c) == IF notna(c) THEN Val(PeriodTexts[IndexOf(PeriodValues, c[1])]) ELSE Val("NaT")

\* t['OrderDate'].dt.to_period('M').astype(str)
month_strings(t) ==
  [i \in 1..Len(t.rows) |-> astype_str(to_period_M(column(t, "OrderDate")[i]))]

\* df_filtered.groupby('Month')[['Sales', 'Profit']].sum().reset_index()
monthly_sums(t) ==
  LET keys == group_keys(t, "Month")
  IN  [i \in 1..Len(keys) |->
        [Month  |-> keys[i],
         Sales  |-> sum(group_rows(t, "Month", keys[i]), "Sales"),
         Profit |-> sum(group_rows(t, "Month", keys[i]), "Profit")]]

\* how to_csv writes one cell of a column of the given dtype
format_cell(dtype, c) ==
  IF ~notna(c) THEN ""
  ELSE CASE dtype = "int64"          -> TextOfInt(c[1], IntTexts)
         [] dtype = "float64"        -> TextOfInt(c[1], FloatTexts)
         [] dtype = "datetime64[ns]" -> DateTexts[IndexOf(DateValues, c[1])]
         [] OTHER                    -> c[1]

\* df.to_csv(index=False): the column names, then one line per row
to_csv(t) ==
  [header |-> t.columns,
   lines  |-> [i \in 1..Len(t.rows) |->
                [j \in 1..Len(t.columns) |->
                  format_cell(t.dtypes[j], t.rows[i].data[t.columns[j]])]]]

----------------------------------------------------------------------------
(* The script *)

NoSelection == [Region |-> {}, Category |-> {}, SubCategory |-> {}]

NoKpi == [sales |-> 0, profit |-> 0, orders |-> 0]

NoCsv == [header |-> <<>>, lines |-> <<>>]

FilterColumns == {"Region", "Category", "SubCategory"}

\* st.sidebar.multiselect(label, options, default=options): the default until the
\* user has touched the widget, the user's choice afterwards
multiselect(col, options) == IF session.touched THEN session.choice[col] ELSE options


\* variant: the masks joined with | instead of &
filter_rows_any(t, sel) ==
  [t EXCEPT !.rows =
     SelectSeq(t.rows, LAMBDA r : \/ r.data["Region"] \in {<<v>> : v \in sel.Region}
                                  \/ r.data["Category"] \in {<<v>> : v \in sel.Category}
                                  \/ r.data["SubCategory"] \in {<<v>> : v \in sel.SubCategory})]

\* variant: the Category mask tests the Region selection
filter_rows_wrong_list(t, sel) ==
  [t EXCEPT !.rows =
     SelectSeq(t.rows, LAMBDA r : /\ r.data["Region"] \in {<<v>> : v \in sel.Region}
                                  /\ r.data["Category"] \in {<<v>> : v \in sel.Region}
                                  /\ r.data["SubCategory"] \in {<<v>> : v \in sel.SubCategory})]

filter_rows(t, sel) ==
  [t EXCEPT !.rows =
     SelectSeq(t.rows, LAMBDA r : /\ isin(r.data["Region"], sel.Region)
                                  /\ isin(r.data["Category"], sel.Category)
                                  /\ isin(r.data["SubCategory"], sel.SubCategory))]

Init ==
  /\ source \in Sources
  /\ cache = [valid |-> FALSE, value |-> NoTable]
  /\ session = [touched |-> FALSE, choice |-> NoSelection]
  /\ pc = "load_data"
  /\ df = NoTable
  /\ selected = NoSelection
  /\ df_filtered = NoTable
  /\ kpi = NoKpi
  /\ top_customers = <<>>
  /\ segment_sales = <<>>
  /\ monthly = <<>>
  /\ csv = NoCsv

\* df = load_data(), memoized by @st.cache_data
LoadData ==
  /\ pc = "load_data"
  /\ cache' = IF cache.valid THEN cache ELSE [valid |-> TRUE, value |-> load_data(source)]
  /\ df' = cache'.value
  /\ pc' = "sidebar"
  /\ UNCHANGED <<source, session, selected, df_filtered, kpi, top_customers,
                 segment_sales, monthly, csv>>

\* the three multiselect widgets
SidebarFilters ==
  /\ pc = "sidebar"
  /\ selected' = [c \in FilterColumns |-> multiselect(c, unique(df, c))]
  /\ pc' = "filter"
  /\ UNCHANGED <<source, cache, session, df, df_filtered, kpi, top_customers,
                 segment_sales, monthly, csv>>

\* df_filtered = df[mask]: boolean indexing makes a new frame
FilterData ==
  /\ pc = "filter"
  /\ df_filtered' = filter_rows(df, selected)
  /\ pc' = "kpis"
  /\ UNCHANGED <<source, cache, session, df, selected, kpi, top_customers,
                 segment_sales, monthly, csv>>


\* variant: Total Sales read from the Profit column
KpisSalesFromProfit ==
  /\ pc = "kpis"
  /\ kpi' = [sales  |-> sum(df_filtered, "Profit"),
             profit |-> sum(df_filtered, "Profit"),
             orders |-> nunique(df_filtered, "OrderID")]
  /\ pc' = "top_customers"
  /\ UNCHANGED <<source, cache, session, df, selected, df_filtered, top_customers,
                 segment_sales, monthly, csv>>

Kpis ==
  /\ pc = "kpis"
  /\ kpi' = [sales  |-> sum(df_filtered, "Sales"),
             profit |-> sum(df_filtered, "Profit"),
             orders |-> nunique(df_filtered, "OrderID")]
  /\ pc' = "top_customers"
  /\ UNCHANGED <<source, cache, session, df, selected, df_filtered, top_customers,
                 segment_sales, monthly, csv>>

TopCustomers ==
  /\ pc = "top_customers"
  /\ \E sorted \in sort_values_descending(groupby_sum(df_filtered, "CustomerName", "Sales")) :
       top_customers' = head(sorted, TopN)
  /\ pc' = "segment_sales"
  /\ UNCHANGED <<source, cache, session, df, selected, df_filtered, kpi,
                 segment_sales, monthly, csv>>

SegmentSales ==
  /\ pc = "segment_sales"
  /\ segment_sales' = groupby_sum(df_filtered, "Segment", "Sales")
  /\ pc' = "month"
  /\ UNCHANGED <<source, cache, session, df, selected, df_filtered, kpi,
                 top_customers, monthly, csv>>


\* variant: df_filtered is a view, the Month column lands in df as well
MonthColumnThroughView ==
  /\ pc = "month"
  /\ df_filtered' = assign_column(df_filtered, "Month", "object", month_strings(df_filtered))
  /\ df' = assign_column(df, "Month", "object", month_strings(df))
  /\ pc' = "monthly"
  /\ UNCHANGED <<source, cache, session, selected, kpi, top_customers,
                 segment_sales, monthly, csv>>

\* df_filtered['Month'] = df_filtered['OrderDate'].dt.to_period('M').astype(str)
MonthColumn ==
  /\ pc = "month"
  /\ df_filtered' = assign_column(df_filtered, "Month", "object", month_strings(df_filtered))
  /\ pc' = "monthly"
  /\ UNCHANGED <<source, cache, session, df, selected, kpi, top_customers,
                 segment_sales, monthly, csv>>

MonthlyTrend ==
  /\ pc = "monthly"
  /\ monthly' = monthly_sums(df_filtered)
  /\ pc' = "download"
  /\ UNCHANGED <<source, cache, session, df, selected, df_filtered, kpi,
                 top_customers, segment_sales, csv>>

\* st.download_button(data=df_filtered.to_csv(index=False).encode('utf-8'))
DownloadButton ==
  /\ pc = "download"
  /\ csv' = to_csv(df_filtered)
  /\ pc' = "done"
  /\ UNCHANGED <<source, cache, session, df, selected, df_filtered, kpi,
                 top_customers, segment_sales, monthly>>

\* the user changes a sidebar selection: Streamlit stores the widget values and
\* reruns the script from the top in a fresh namespace.  (A change made while a
\* run is still in progress abandons that run and leads to the same state.)
ChangeSelection ==
  /\ pc = "done"
  /\ \E r \in SUBSET unique(df, "Region"), c \in SUBSET unique(df, "Category"),
        s \in SUBSET unique(df, "SubCategory") :
       /\ [Region |-> r, Category |-> c, SubCategory |-> s] # selected
       /\ session' = [touched |-> TRUE,
                      choice  |-> [Region |-> r, Category |-> c, SubCategory |-> s]]
  /\ pc' = "load_data"
  /\ df' = NoTable
  /\ selected' = NoSelection
  /\ df_filtered' = NoTable
  /\ kpi' = NoKpi
  /\ top_customers' = <<>>
  /\ segment_sales' = <<>>
  /\ monthly' = <<>>
  /\ csv' = NoCsv
  /\ UNCHANGED <<source, cache>>

Next ==
  \/ LoadData
  \/ SidebarFilters
  \/ FilterData
  \/ Kpis
  \/ TopCustomers
  \/ SegmentSales
  \/ MonthColumn
  \/ MonthlyTrend
  \/ DownloadButton
  \/ ChangeSelection

Spec == Init /\ [][Next]_vars

----------------------------------------------------------------------------
(* Properties.  They are stated over the text of the file and the values   *)
(* the script holds, not through the operators above.                      *)

Loaded == pc # "load_data"

Filtered == pc \notin {"load_data", "sidebar", "filter"}

KpisShown == pc \notin {"load_data", "sidebar", "filter", "kpis"}

TopShown == pc \notin {"load_data", "sidebar", "filter", "kpis", "top_customers"}

Indexes(t) == {t.rows[i].index : i \in 1..Len(t.rows)}

Cell(r, c) == r.data[c]

InSelection(r) ==
  /\ \E v \in selected.Region : Cell(r, "Region") = <<v>>
  /\ \E v \in selected.Category : Cell(r, "Category") = <<v>>
  /\ \E v \in selected.SubCategory : Cell(r, "SubCategory") = <<v>>

FullSelection ==
  [c \in FilterColumns |-> {Cell(df.rows[i], c)[1] : i \in 1..Len(df.rows)}]

\* the text of field h on line i of the file
Text(i, h) == source.lines[i][IndexOf(source.header, h)]

IsNumber(text) == text \in {"-2", "-1", "0", "1", "2", "3"}

NumberOf(text) ==
  CASE text = "-2" -> 0 - 2 [] text = "-1" -> 0 - 1 [] text = "0" -> 0
    [] text = "1" -> 1 [] text = "2" -> 2 [] text = "3" -> 3

IsDate(text) == text \in {"2020-01-15", "2020-01-20", "2020-01-28", "2020-02-03"}

IsMissing(text) == text \in NaStrings

\* line i has all seven mandatory fields
Complete(i) ==
  /\ IsNumber(Text(i, "Sales")) /\ IsNumber(Text(i, "Profit"))
  /\ \A h \in {"Region", "Segment", "Category", "Sub.Category", "Customer.Name"} :
       ~IsMissing(Text(i, h))

\* line i passes the current selection
Chosen(i) ==
  /\ Text(i, "Region") \in selected.Region
  /\ Text(i, "Category") \in selected.Category
  /\ Text(i, "Sub.Category") \in selected.SubCategory

\* a field of line i is present but does not parse
CoercionFailure(i) ==
  \/ \E h \in {"Order.Date", "Ship.Date"} : ~IsMissing(Text(i, h)) /\ ~IsDate(Text(i, h))
  \/ \E h \in {"Sales", "Profit"} : ~IsMissing(Text(i, h)) /\ ~IsNumber(Text(i, h))

LinesWhere(P(_)) == {i \in 1..Len(source.lines) : P(i)}

RECURSIVE SalesOfLines(_)
SalesOfLines(S) ==
  IF S = {} THEN 0
  ELSE LET i == CHOOSE x \in S : TRUE
       IN  NumberOf(Text(i, "Sales")) + SalesOfLines(S \ {i})

\* C1: a record of the cleaned table is in the filtered subset iff its Region,
\* its Category and its SubCategory are all in the respective selection.
C1_FilterIsConjunction ==
  Filtered =>
    \A i \in 1..Len(df.rows) :
      df.rows[i].index \in Indexes(df_filtered) <=> InSelection(df.rows[i])

\* a record that matches on Region and Category but not on SubCategory is left
\* out while another record is kept
C1_Witness ==
  /\ Filtered
  /\ df_filtered.rows # <<>>
  /\ \E i \in 1..Len(df.rows) :
       /\ Cell(df.rows[i], "Region")[1] \in selected.Region
       /\ Cell(df.rows[i], "Category")[1] \in selected.Category
       /\ Cell(df.rows[i], "SubCategory")[1] \notin selected.SubCategory
       /\ df.rows[i].index \notin Indexes(df_filtered)

\* C2: if any one of the three selection sets is empty the filtered subset is
\* empty, whatever the other two contain.
C2_EmptySelectionEmptySubset ==
  Filtered /\ (\E c \in FilterColumns : selected[c] = {}) => df_filtered.rows = <<>>

C2_Witness ==
  /\ Filtered
  /\ df.rows # <<>>
  /\ selected.Region = {}
  /\ selected.Category = FullSelection.Category
  /\ selected.SubCategory = FullSelection.SubCategory
  /\ df_filtered.rows = <<>>

\* C3: under the full default selection the filtered subset is the cleaned
\* table: the same records in the same order (on the columns of the cleaned
\* table), and right after filtering the very same frame.
C3_FullSelectionIsIdentity ==
  Filtered /\ selected = FullSelection =>
    /\ Len(df_filtered.rows) = Len(df.rows)
    /\ \A i \in 1..Len(df.rows) :
         /\ df_filtered.rows[i].index = df.rows[i].index
         /\ \A c \in Range(df.columns) : Cell(df_filtered.rows[i], c) = Cell(df.rows[i], c)
    /\ pc = "kpis" => df_filtered = df

C3_Witness ==
  /\ pc = "kpis"
  /\ selected = FullSelection
  /\ Len(df.rows) >= 2
  /\ Cardinality(selected.Region) >= 2
  /\ df_filtered = df

\* C4: every record load_data returns has Sales, Profit, Region, Segment,
\* Category, SubCategory and CustomerName present, and it comes from a line
\* whose Sales and Profit parse as numbers.
C4_LoadedRecordsComplete ==
  Loaded =>
    \A i \in 1..Len(df.rows) :
      /\ \A c \in {"Sales", "Profit", "Region", "Segment", "Category", "SubCategory",
                   "CustomerName"} : Cell(df.rows[i], c) # Null
      /\ IsNumber(Text(df.rows[i].index + 1, "Sales"))
      /\ IsNumber(Text(df.rows[i].index + 1, "Profit"))

\* a line with an unparsable Sales is dropped while another line is returned
C4_Witness ==
  /\ Loaded
  /\ df.rows # <<>>
  /\ \E i \in 1..Len(source.lines) :
       ~IsMissing(Text(i, "Sales")) /\ ~IsNumber(Text(i, "Sales")) /\ (i - 1) \notin Indexes(df)

\* the Sales total of the "NaT" bucket of the time series, 0 if there is none
NaTBucketSales == SumSeq([i \in 1..Len(monthly) |->
                            IF monthly[i].Month = "NaT" THEN monthly[i].Sales ELSE 0])

DatedBucketSales == SumSeq([i \in 1..Len(monthly) |->
                              IF monthly[i].Month # "NaT" THEN monthly[i].Sales ELSE 0])

Analysed(i) == Complete(i) /\ Chosen(i)

AnalysedWithoutFailure(i) == Analysed(i) /\ ~CoercionFailure(i)

AnalysedDated(i) == Analysed(i) /\ IsDate(Text(i, "Order.Date"))

AnalysedUndated(i) == Analysed(i) /\ ~IsDate(Text(i, "Order.Date"))

\* C5 as stated: a record with any coercion failure (a date or an amount that
\* does not parse) is excluded from analysis, so the Total Sales KPI, the
\* Segment aggregation and the time series add up the Sales of exactly the
\* complete, selected lines without such a failure.
C5_FailedRecordExcluded ==
  pc = "done" =>
    /\ kpi.sales = SalesOfLines(LinesWhere(AnalysedWithoutFailure))
    /\ SumSeq([i \in 1..Len(segment_sales) |-> segment_sales[i].value])
         = SalesOfLines(LinesWhere(AnalysedWithoutFailure))
    /\ SumSeq([i \in 1..Len(monthly) |-> monthly[i].Sales])
         = SalesOfLines(LinesWhere(AnalysedWithoutFailure))

\* C5 amended: only an unparsable Sales or Profit excludes the record.  A
\* record whose OrderDate or ShipDate does not parse stays in the analysis:
\* the KPI, the Segment aggregation and the time series add up the Sales of
\* every complete, selected line, and a line without a parsed OrderDate is
\* counted in the time-series bucket "NaT".
C5_OnlyAmountFailureExcludes ==
  pc = "done" =>
    /\ kpi.sales = SalesOfLines(LinesWhere(Analysed))
    /\ SumSeq([i \in 1..Len(segment_sales) |-> segment_sales[i].value])
         = SalesOfLines(LinesWhere(Analysed))
    /\ NaTBucketSales = SalesOfLines(LinesWhere(AnalysedUndated))
    /\ DatedBucketSales = SalesOfLines(LinesWhere(AnalysedDated))
    /\ \A i \in LinesWhere(CoercionFailure) :
         (i - 1) \in Indexes(df_filtered) <=> Analysed(i)

\* one line is dropped for its unparsable amount, another with an unparsable
\* OrderDate is analysed and fills the "NaT" bucket
C5_Witness ==
  /\ pc = "done"
  /\ \E i \in 1..Len(source.lines) :
       /\ ~IsNumber(Text(i, "Sales")) \/ ~IsNumber(Text(i, "Profit"))
       /\ CoercionFailure(i)
       /\ (i - 1) \notin Indexes(df)
  /\ \E i \in LinesWhere(AnalysedUndated) : CoercionFailure(i)
  /\ NaTBucketSales > 0

\* the customers of the subset, their Sales totals and first rows
Customers == {Cell(df_filtered.rows[i], "CustomerName")[1] : i \in 1..Len(df_filtered.rows)}

CustomerSales(c) ==
  SumSeq([i \in 1..Len(df_filtered.rows) |->
            IF Cell(df_filtered.rows[i], "CustomerName") = <<c>>
            THEN Cell(df_filtered.rows[i], "Sales")[1] ELSE 0])

FirstRow(c) ==
  CHOOSE i \in 1..Len(df_filtered.rows) :
    /\ Cell(df_filtered.rows[i], "CustomerName") = <<c>>
    /\ \A j \in 1..(i - 1) : Cell(df_filtered.rows[j], "CustomerName") # <<c>>

TopKeys == {top_customers[i].key : i \in 1..Len(top_customers)}

\* at most TopN customers with their totals, in descending order of total, no
\* left-out customer having a larger total than a listed one
IsTopByTotal ==
  /\ Len(top_customers) = Min(TopN, Cardinality(Customers))
  /\ \A i \in 1..Len(top_customers) :
       /\ top_customers[i].key \in Customers
       /\ top_customers[i].value = CustomerSales(top_customers[i].key)
  /\ \A i, j \in 1..Len(top_customers) :
       i < j => /\ top_customers[i].key # top_customers[j].key
                /\ top_customers[i].value >= top_customers[j].value
  /\ \A c \in Customers \ TopKeys :
       \A i \in 1..Len(top_customers) : CustomerSales(c) <= top_customers[i].value

\* C6 as stated: the Top-5 lists customers by summed Sales descending, at most
\* 5, and among customers with equal sums the one whose first record comes
\* earlier in the subset is placed first.
C6_TiesByFirstOccurrence ==
  TopShown =>
    /\ IsTopByTotal
    /\ \A i, j \in 1..Len(top_customers) :
         i < j /\ top_customers[i].value = top_customers[j].value
           => FirstRow(top_customers[i].key) < FirstRow(top_customers[j].key)
    /\ \A c \in Customers \ TopKeys :
         \A i \in 1..Len(top_customers) :
           CustomerSales(c) = top_customers[i].value
             => FirstRow(top_customers[i].key) < FirstRow(c)

\* C6 amended: the Top-5 groups by CustomerName, sums Sales, orders by the sum
\* descending and keeps at most 5; the order among customers with equal sums is
\* not fixed by first occurrence.
C6_TopFiveByTotal == TopShown => IsTopByTotal

\* more than TopN customers, a tie among the listed ones, a customer cut off
C6_Witness ==
  /\ TopShown
  /\ Cardinality(Customers) > TopN
  /\ Len(top_customers) = TopN
  /\ \E i, j \in 1..Len(top_customers) :
       i < j /\ top_customers[i].value = top_customers[j].value
  /\ top_customers[1].value > top_customers[TopN].value

TopTotal == SumSeq([i \in 1..Len(top_customers) |-> top_customers[i].value])

NoNegativeSales ==
  \A i \in 1..Len(df_filtered.rows) : Cell(df_filtered.rows[i], "Sales")[1] >= 0

\* C7 as stated: for every subset, the Sales of the Top-5 result add up to at
\* most the Total Sales KPI.
C7_TopWithinTotal == TopShown => TopTotal <= kpi.sales

\* C7 amended: the same, for every subset in which no Sales value is negative.
C7_TopWithinTotalNonNegative == TopShown /\ NoNegativeSales => TopTotal <= kpi.sales

\* more than TopN customers, none negative, the Top-5 strictly below the total
C7_Witness ==
  /\ TopShown
  /\ NoNegativeSales
  /\ Cardinality(Customers) > TopN
  /\ TopTotal < kpi.sales

OrderIds == {Cell(df_filtered.rows[i], "OrderID") : i \in 1..Len(df_filtered.rows)} \ {Null}

RowsOfOrder(o) == {i \in 1..Len(df_filtered.rows) : Cell(df_filtered.rows[i], "OrderID") = o}

\* C8 as stated: Total Orders is at most the row count of the subset and
\* equals it iff every order has exactly one row in the subset.
C8_OrdersEqualRowsIffSingleLine ==
  KpisShown =>
    /\ kpi.orders <= Len(df_filtered.rows)
    /\ kpi.orders = Len(df_filtered.rows)
         <=> \A o \in OrderIds : Cardinality(RowsOfOrder(o)) = 1

\* C8 amended: Total Orders is at most the row count and equals it iff every
\* row of the subset has an OrderID and no two rows share one.
C8_OrdersEqualRowsIffAllDistinct ==
  KpisShown =>
    /\ kpi.orders <= Len(df_filtered.rows)
    /\ kpi.orders = Len(df_filtered.rows)
         <=> /\ \A i \in 1..Len(df_filtered.rows) : Cell(df_filtered.rows[i], "OrderID") # Null
             /\ \A o \in OrderIds : Cardinality(RowsOfOrder(o)) = 1

\* a row without OrderID next to an order of one row: one order, two rows
C8_Witness ==
  /\ KpisShown
  /\ Len(df_filtered.rows) = 2
  /\ \E i \in 1..2 : Cell(df_filtered.rows[i], "OrderID") = Null
  /\ \A o \in OrderIds : Cardinality(RowsOfOrder(o)) = 1
  /\ kpi.orders = 1

\* C9: the exported file has a header and one line per record of the filtered
\* subset, and its columns are exactly the columns of the cleaned table.
C9_ExportHasCleanedSchema ==
  pc = "done" =>
    /\ Len(csv.lines) = Len(df_filtered.rows)
    /\ csv.header = df.columns

\* C10: once loaded, the cleaned table is never changed: no step alters the
\* cached result of load_data, and after every step of every run df, when
\* loaded, is that result (the same records, columns and values).
C10_CleanedTableUnchanged ==
  [][/\ cache.valid => cache' = cache
     /\ pc' # "load_data" => cache'.valid /\ df' = cache'.value]_vars

C10_Witness ==
  /\ pc = "done"
  /\ session.touched
  /\ df.rows # <<>>
  /\ "Month" \in Range(df_filtered.columns)
  /\ "Month" \notin Range(df.columns)
  /\ df = load_data(source)

====
